---- MODULE Spec2Model ----
(***************************************************************************)
(* Model of the nuclear-spot segmentation pipeline:                        *)
(*   segmentation.py            parse_filename, normalize_image, load_tif, *)
(*                              segment_and_measure_spots,                 *)
(*                              store_measurements_in_sql                  *)
(*   seg_process_batch.py       process_folder, __main__ (batch driver)    *)
(*   seg_process.py             process_images (single-folder driver)      *)
(*   plot_nuclear_metrics_dual.py  agg_and_plot                            *)
(*                                                                         *)
(* Strings that the code searches (paths, file names) are sequences of     *)
(* one-character strings, so that lower-casing, substring search and the   *)
(* regular expressions are computed, not assumed.  Python's None is the    *)
(* empty sequence <<>> and an int n that may be None is <<n>>.  A real     *)
(* number is an exact fraction <<numerator, denominator>> in lowest terms. *)
(***************************************************************************)
EXTENDS Integers, Sequences, FiniteSets, TLC

VARIABLES
    pc,          \* position of the running driver / function
    file_path,   \* path of the file in hand, a sequence of path segments
    meta_in,     \* metadata dict as parse_filename returned it
    meta,        \* the same dict object after the pipeline touched it
    csv_exists,  \* os.path.exists(SUMMARY_CSV)
    csv_lines,   \* lines of image_summary.csv, in file order
    db_spots,    \* committed rows of table spots, in insertion order
    db_images,   \* committed rows of table images, in insertion order
    last_spots,  \* measurement list handed to the last store call
    tree,        \* input tree in os.walk order: folders with their file names
    todo,        \* files of the current run not yet visited, in visiting order
    result,      \* files the current run has visited |-> how the body ended
    folders,     \* folders of the current run not yet entered, in walk order
    runs,        \* number of batch runs started
    buf,         \* raw buffer returned by tifffile.imread
    gray,        \* load_tif's img just before normalize_image is called
    img,         \* value load_tif returns (an image, or <<>> for None)
    fpe,         \* TRUE when normalize_image divided by zero
    binary,      \* mask after thresholding, closing and opening (line 104)
    mask,        \* mask segment_and_measure_spots returns
    min_area,    \* min_area argument of segment_and_measure_spots
    measurements,\* list returned by segment_and_measure_spots
    df,          \* rows read from image_summary.csv by the plotting script
    sub,         \* subset handed to agg_and_plot
    sub_agg,     \* first-stage groups (one row per seedling)
    bar,         \* second-stage groups (one row per condition)
    conn,        \* uncommitted rows of the open sqlite3 connection, or <<>>
    calls,       \* arguments of the store calls started so far, in order
    owner        \* for each summary line and committed row, the call that wrote it

metaVars  == <<file_path, meta_in, meta>>
sinkVars  == <<csv_exists, csv_lines, db_spots, db_images, last_spots>>
batchVars == <<tree, folders, todo, result, runs>>
normVars  == <<buf, gray, img, fpe>>
segVars   == <<binary, mask, min_area, measurements>>
plotVars  == <<df, sub, sub_agg, bar>>
txnVars   == <<conn, calls, owner>>
vars == <<pc, metaVars, sinkVars, batchVars, normVars, segVars, plotVars, txnVars>>

None == <<>>
Some(n) == <<n>>

-----------------------------------------------------------------------------
(* Character strings                                                       *)

UpperChars == <<"A","B","C","D","E","F","G","H","I","J","K","L","M",
                "N","O","P","Q","R","S","T","U","V","W","X","Y","Z">>
LowerChars == <<"a","b","c","d","e","f","g","h","i","j","k","l","m",
                "n","o","p","q","r","s","t","u","v","w","x","y","z">>
Digits == <<"0","1","2","3","4","5","6","7","8","9">>

\* str.lower() on one character
LowerChar(c) ==
    IF \E i \in DOMAIN UpperChars : UpperChars[i] = c
    THEN LowerChars[CHOOSE i \in DOMAIN UpperChars : UpperChars[i] = c]
    ELSE c

\* str.lower()
Lower(s) == [i \in 1..Len(s) |-> LowerChar(s[i])]

\* Python's  sub in s  on strings
Contains(subs, s) ==
    \E i \in 0..(Len(s) - Len(subs)) : SubSeq(s, i + 1, i + Len(subs)) = subs

IsDigit(c) == \E i \in DOMAIN Digits : Digits[i] = c
DigitVal(c) == (CHOOSE i \in DOMAIN Digits : Digits[i] = c) - 1

\* length of the run of digits of s that starts at index i
RECURSIVE DigitRun(_, _)
DigitRun(s, i) ==
    IF i <= Len(s) /\ IsDigit(s[i]) THEN 1 + DigitRun(s, i + 1) ELSE 0

\* int() of a string of digits
RECURSIVE ToInt(_)
ToInt(ds) ==
    IF ds = <<>> THEN 0
    ELSE 10 * ToInt(SubSeq(ds, 1, Len(ds) - 1)) + DigitVal(ds[Len(ds)])

\* the pattern  pre(\d+)(?=la)  matches s at index i
MatchAt(pre, la, s, i) ==
    /\ i + Len(pre) - 1 <= Len(s)
    /\ SubSeq(s, i, i + Len(pre) - 1) = pre
    /\ LET k == DigitRun(s, i + Len(pre))
           j == i + Len(pre) + k
       IN  /\ k >= 1
           /\ j + Len(la) - 1 <= Len(s)
           /\ SubSeq(s, j, j + Len(la) - 1) = la

\* re.search(pre(\d+)(?=la), s).group(1), or None when nothing matches
ReSearch(pre, la, s) ==
    IF \E i \in 1..Len(s) : MatchAt(pre, la, s, i)
    THEN LET i == CHOOSE a \in 1..Len(s) :
                      /\ MatchAt(pre, la, s, a)
                      /\ \A b \in 1..(a - 1) : ~MatchAt(pre, la, s, b)
             k == DigitRun(s, i + Len(pre))
         IN  SubSeq(s, i + Len(pre), i + Len(pre) + k - 1)
    ELSE None

KW_meristem == <<"m","e","r","i","s","t","e","m">>
KW_elongation == <<"e","l","o","n","g","a","t","i","o","n">>
KW_control == <<"c","o","n","t","r","o","l">>
KW_mutant == <<"m","u","t","a","n","t">>
RE_seedling == <<"s","e","e","d","l","i","n","g">>
RE_z == <<"_","z">>
RE_c == <<"c">>
RE_tif == <<".","t","i","f">>
STR_unknown == <<"u","n","k","n","o","w","n">>

\* str(pathlib.Path(...)) of a sequence of segments: joined by "/"
RECURSIVE PathStr(_)
PathStr(p) ==
    IF Len(p) = 0 THEN <<>>
    ELSE IF Len(p) = 1 THEN p[1]
    ELSE p[1] \o <<"/">> \o PathStr(Tail(p))

\* os.path.basename / pathlib.Path.name
Basename(p) == <<p[Len(p)]>>

-----------------------------------------------------------------------------
(* segmentation.py: parse_filename                                         *)

parse_region(parts) ==
    IF \E i \in DOMAIN parts : Contains(KW_meristem, parts[i]) THEN "meristem"
    ELSE IF \E i \in DOMAIN parts : Contains(KW_elongation, parts[i]) THEN "elongation"
    ELSE "unknown"

parse_genotype(parts) ==
    IF \E i \in DOMAIN parts : Contains(KW_control, parts[i]) THEN "control"
    ELSE IF \E i \in DOMAIN parts : Contains(KW_mutant, parts[i]) THEN "mutant"
    ELSE "unknown"

parse_filename(p) ==
    LET fname    == Lower(p[Len(p)])
        parts    == [i \in 1..Len(p) |-> Lower(p[i])]
        seedling == ReSearch(RE_seedling, <<>>, fname)
        zslice   == ReSearch(RE_z, <<>>, fname)
        channel  == ReSearch(RE_c, RE_tif, fname)
    IN  [ filename      |-> PathStr(p),
          region        |-> parse_region(parts),
          genotype      |-> parse_genotype(parts),
          seedling      |-> IF seedling # None THEN Some(ToInt(seedling)) ELSE None,
          zslice        |-> IF zslice # None THEN Some(ToInt(zslice)) ELSE None,
          channel       |-> IF channel # None THEN RE_c \o channel ELSE STR_unknown,
          magnification |-> "40x",
          fluorophore   |-> "mCherry-H2B" ]

-----------------------------------------------------------------------------
(* Exact fractions                                                         *)

RECURSIVE Gcd(_, _)
Gcd(a, b) == IF b = 0 THEN a ELSE Gcd(b, a % b)

\* n / d for n >= 0, d > 0, in lowest terms
Frac(n, d) == LET g == Gcd(n, d) IN <<n \div g, d \div g>>
Zero == <<0, 1>>

\* the sum of the integers f[x], x in S
RECURSIVE SetSum(_, _)
SetSum(f, S) ==
    IF S = {} THEN 0
    ELSE LET x == CHOOSE y \in S : TRUE IN f[x] + SetSum(f, S \ {x})

-----------------------------------------------------------------------------
(* segmentation.py: store_measurements_in_sql                              *)

\* One entry of the list segment_and_measure_spots returns (lines 115-120):
\* a region of `area` pixels whose intensities add up to `total`.
Measurement(label, area, total) ==
    [ label                |-> label,
      area_pixels          |-> area,
      mean_intensity       |-> Frac(total, area),
      integrated_intensity |-> total ]

\* the spots counted instead of their pixels
SumArea_CountSpots(ms) == Len(ms)

\* sum(m["area_pixels"] for m in measurements), left to right
RECURSIVE SumArea(_)
SumArea(ms) ==
    IF ms = <<>> THEN 0
    ELSE SumArea(SubSeq(ms, 1, Len(ms) - 1)) + ms[Len(ms)].area_pixels

\* sum(m["integrated_intensity"] for m in measurements), left to right
RECURSIVE SumIntensity(_)
SumIntensity(ms) ==
    IF ms = <<>> THEN 0
    ELSE SumIntensity(SubSeq(ms, 1, Len(ms) - 1)) + ms[Len(ms)].integrated_intensity

\* total_intensity / total_area if total_area else 0
MeanIntensity(total_intensity, total_area) ==
    IF total_area # 0 THEN Frac(total_intensity, total_area) ELSE Zero

\* lines 132-134: the totals written to the flat summary
CsvSummary(ms) ==
    [ total_area           |-> SumArea(ms),
      integrated_intensity |-> SumIntensity(ms),
      mean_intensity       |-> MeanIntensity(SumIntensity(ms), SumArea(ms)) ]

\* lines 213-215: the totals written to table images
DbSummary(ms) ==
    [ total_area           |-> SumArea(ms),
      integrated_intensity |-> SumIntensity(ms),
      mean_intensity       |-> MeanIntensity(SumIntensity(ms), SumArea(ms)) ]

\* lines 138-140: region and genotype are overwritten from the file name
Enrich(m) ==
    LET fname_lower == Lower(m.filename)
    IN  [m EXCEPT
          !.region   = IF Contains(KW_meristem, fname_lower)
                       THEN "meristem" ELSE "elongation",
          !.genotype = IF Contains(KW_control, fname_lower)
                       THEN "control" ELSE "mutant"]

\* A line of the summary file.  The header and a data row are told apart by
\* `kind`: a data row can never spell the header, its second cell being
\* "meristem" or "elongation" (Enrich) and the header's being "region".
CsvHeader ==
    [ kind  |-> "header",
      cells |-> <<"filename", "region", "genotype", "seedling", "zslice",
                  "total_area", "integrated_intensity", "mean_intensity">> ]

CsvRow(m, s) ==
    [ kind                 |-> "row",
      filename             |-> m.filename,
      region               |-> m.region,
      genotype             |-> m.genotype,
      seedling             |-> m.seedling,
      zslice               |-> m.zslice,
      total_area           |-> s.total_area,
      integrated_intensity |-> s.integrated_intensity,
      mean_intensity       |-> s.mean_intensity ]

\* the header written by every call
CsvAppend_AlwaysHeader(exists, lines, row) == lines \o <<CsvHeader, row>>

\* lines 154-160: open in append mode, header only when the file was missing
CsvAppend(exists, lines, row) ==
    LET first_time == ~exists
    IN  IF first_time THEN lines \o <<CsvHeader, row>> ELSE Append(lines, row)

\* lines 181-196
SpotRow(m, x) ==
    [ filename             |-> m.filename,
      magnification        |-> m.magnification,
      zslice               |-> m.zslice,
      channel              |-> m.channel,
      label                |-> x.label,
      area_pixels          |-> x.area_pixels,
      mean_intensity       |-> x.mean_intensity,
      integrated_intensity |-> x.integrated_intensity ]

\* lines 218-231
ImageRow(m, s) ==
    [ filename             |-> m.filename,
      magnification        |-> m.magnification,
      zslice               |-> m.zslice,
      channel              |-> m.channel,
      total_area           |-> s.total_area,
      mean_intensity       |-> s.mean_intensity,
      integrated_intensity |-> s.integrated_intensity ]

\* How far a store call gets: the summary file cannot be opened, the database
\* raises before the commit, or everything is written.
StoreOutcomes == {"csv_raise", "db_raise", "stored"}

\* store_measurements_in_sql(db_path, m, ms).  The dict m is changed in place
\* before anything is written; the flat row is appended before the database
\* is opened; the inserts take effect at the one commit of line 233.
store_measurements_in_sql(m, ms, how) ==
    LET m2 == Enrich(m)
    IN  /\ meta' = m2
        /\ last_spots' = ms
        /\ IF how = "csv_raise"
           THEN UNCHANGED <<csv_exists, csv_lines>>
           ELSE /\ csv_exists' = TRUE
                /\ csv_lines' = CsvAppend(csv_exists, csv_lines, CsvRow(m2, CsvSummary(ms)))
        /\ IF how = "stored"
           THEN /\ db_spots' = db_spots \o [i \in 1..Len(ms) |-> SpotRow(m2, ms[i])]
                /\ db_images' = Append(db_images, ImageRow(m2, DbSummary(ms)))
           ELSE UNCHANGED <<db_spots, db_images>>

-----------------------------------------------------------------------------
(* The per-file body shared by the two drivers                             *)
(*   seg_process_batch.py process_folder, lines 52-71                      *)
(*   seg_process.py process_images, lines 39-64                            *)

\* What happens to one file: load_tif returns None; segmentation raises; the
\* store call ends in one of StoreOutcomes; the visualization raises; or the
\* whole body runs.
Outcomes == {"load_none", "seg_raise", "csv_raise", "db_raise", "viz_raise", "ok"}
Raises == {"seg_raise", "csv_raise", "db_raise", "viz_raise"}

StoreOutcomeOf(outcome) ==
    IF outcome \in {"viz_raise", "ok"} THEN "stored" ELSE outcome

\* arg is what the driver hands to parse_filename; ms is the list the
\* segmentation returns for the file.
FileBody(p, arg, outcome, ms) ==
    LET m0 == parse_filename(arg)
    IN  /\ file_path' = p
        /\ meta_in' = m0
        /\ IF outcome \in {"load_none", "seg_raise"}
           THEN /\ meta' = m0
                /\ UNCHANGED sinkVars
           ELSE store_measurements_in_sql(m0, ms, StoreOutcomeOf(outcome))

\* seg_process_batch.py line 54: parse_filename(fname), the full path
BatchArg(p) == p

\* seg_process.py line 42: parse_filename(os.path.basename(fname))
SingleArg(p) == Basename(p)

-----------------------------------------------------------------------------
(* Inputs of the drivers                                                   *)

MaxSegs == 2
MaxRuns == 2

SegMutElong == <<"i","s","t","l","_","M","u","t","a","n","t","_","E","l","o","n","g","a","t","i","o","n">>
SegCtrlMeri == <<"c","o","n","t","r","o","l","_","m","e","r","i","s","t","e","m">>
SegPlain == <<"i","m","a","g","e","s">>
FileStack == <<"h","2","b","_","s","e","e","d","l","i","n","g","3","_","e","l","o","n","g",".","t","i","f">>
FileSlice == <<"h","2","b","_","s","e","e","d","l","i","n","g","1","2","_","z","1","6","c","1",".","t","i","f">>
FileMeri == <<"M","E","R","I","S","T","E","M","_","a",".","t","i","f">>
FileBare == <<"i","m","g",".","t","i","f">>
FileCtrlElong == <<"c","o","n","t","r","o","l","_","e","l","o","n","g","a","t","i","o","n","_","c","2",".","t","i","f">>
FileTiff == <<"a","_","s","e","e","d","l","i","n","g","1",".","t","i","f","f">>
FileNotes == <<"n","o","t","e","s",".","t","x","t">>
EXT_tiff == <<".","t","i","f","f">>

Segments == {SegMutElong, SegCtrlMeri, SegPlain, FileStack, FileSlice,
             FileMeri, FileBare, FileCtrlElong}

\* every path of 1..MaxSegs segments
Paths == UNION {[1..n -> Segments] : n \in 1..MaxSegs}

\* what the segmentation returns for the image a file holds
NoSpots == <<>>
OneSpot == <<Measurement(1, 5, 12)>>
DriverSpotLists == {NoSpots, OneSpot}

\* a file on disk: its name and, standing for its pixels, the list its
\* image segments into
File(name, spots) == [name |-> name, spots |-> spots]
Folder(dir, files) == [dir |-> dir, files |-> files]

\* the trees the batch runs walk
Trees ==
    { <<Folder(<<SegCtrlMeri>>, {File(FileStack, OneSpot), File(FileTiff, NoSpots)})>>,
      <<Folder(<<SegPlain>>, {File(FileNotes, NoSpots)}),
        Folder(<<SegPlain, SegMutElong>>, {File(FileSlice, OneSpot)}),
        Folder(<<SegPlain, SegCtrlMeri>>,
               {File(FileBare, OneSpot), File(FileNotes, NoSpots)})>> }

\* a summary file left by an earlier run of the program
OldCsv ==
    <<CsvHeader,
      CsvRow(Enrich(parse_filename(<<SegCtrlMeri, FileMeri>>)), CsvSummary(<<>>))>>

-----------------------------------------------------------------------------
(* seg_process_batch.py                                                    *)

EndsWith(s, suf) ==
    Len(s) >= Len(suf) /\ SubSeq(s, Len(s) - Len(suf) + 1, Len(s)) = suf

\* characters in code-point order, for sorted()
CharOrder == <<"-", ".", "/",
               "0","1","2","3","4","5","6","7","8","9",
               "A","B","C","D","E","F","G","H","I","J","K","L","M",
               "N","O","P","Q","R","S","T","U","V","W","X","Y","Z",
               "_",
               "a","b","c","d","e","f","g","h","i","j","k","l","m",
               "n","o","p","q","r","s","t","u","v","w","x","y","z">>
Code(c) == CHOOSE i \in DOMAIN CharOrder : CharOrder[i] = c

\* a < b on Python strings
RECURSIVE StrLess(_, _)
StrLess(a, b) ==
    IF b = <<>> THEN FALSE
    ELSE IF a = <<>> THEN TRUE
    ELSE IF Head(a) # Head(b) THEN Code(Head(a)) < Code(Head(b))
    ELSE StrLess(Tail(a), Tail(b))

\* sorted() of a set of paths, compared as the strings glob returns
RECURSIVE sorted(_)
sorted(S) ==
    IF S = {} THEN <<>>
    ELSE LET m == CHOOSE x \in S :
                      \A y \in S \ {x} : StrLess(PathStr(x), PathStr(y))
         IN  <<m>> \o sorted(S \ {m})

\* lines 22-26: every *.tiff of the folder is renamed to *.tif
\* (os.rename replaces a file that already has the new name)
convert_tiff_to_tif(files) ==
    LET renamed == { File(SubSeq(f.name, 1, Len(f.name) - 5) \o RE_tif, f.spots) :
                       f \in {g \in files : EndsWith(g.name, EXT_tiff)} }
    IN  renamed \cup
        { f \in files : /\ ~EndsWith(f.name, EXT_tiff)
                        /\ \A r \in renamed : r.name # f.name }

\* lines 28-32: indices of the folders holding a .tif/.tiff, in walk order
discover_image_folders(t) ==
    SelectSeq([i \in 1..Len(t) |-> i],
              LAMBDA i : \E f \in t[i].files :
                  \/ EndsWith(Lower(f.name), RE_tif)
                  \/ EndsWith(Lower(f.name), EXT_tiff))

\* line 45: sorted(glob.glob(os.path.join(img_folder, "*.tif")))
tif_files(folder) ==
    sorted({ folder.dir \o <<f.name>> :
               f \in {g \in folder.files : EndsWith(g.name, RE_tif)} })

\* every file a run finds under the tree
AllTifFiles(t) ==
    UNION { { t[i].dir \o <<f.name>> :
                f \in {g \in t[i].files : EndsWith(g.name, RE_tif)} } :
              i \in 1..Len(t) }

\* the list the image stored at path p segments into
SpotsAt(t, p) ==
    LET i == CHOOSE j \in 1..Len(t) :
                 /\ t[j].dir = SubSeq(p, 1, Len(p) - 1)
                 /\ \E f \in t[j].files : f.name = p[Len(p)]
    IN  (CHOOSE f \in t[i].files : f.name = p[Len(p)]).spots

\* the loop without its except clause: an exception leaves process_folder
AfterFile_NoCatch(outcome) == IF outcome \in Raises THEN "aborted" ELSE "files"

\* lines 56-58 and 70-71: a failed load is skipped with `continue` and every
\* exception of the body is caught, so the loop goes on to the next file
AfterFile(outcome) == "files"

\* lines 75-80: optionally remove the database, then list the folders
Main ==
    /\ pc \in {"idle", "done"}
    /\ runs < MaxRuns
    /\ \E overwrite_db \in BOOLEAN :
          IF overwrite_db
          THEN db_spots' = <<>> /\ db_images' = <<>>
          ELSE UNCHANGED <<db_spots, db_images>>
    /\ runs' = runs + 1
    /\ folders' = discover_image_folders(tree)
    /\ todo' = <<>>
    /\ result' = <<>>
    /\ pc' = "folders"
    /\ UNCHANGED <<txnVars, tree, metaVars, csv_exists, csv_lines, last_spots,
                   normVars, segVars, plotVars>>

\* lines 82-83 and 41-50: enter the next folder, rename, list its files
ProcessFolder ==
    /\ pc = "folders"
    /\ folders # <<>>
    /\ LET i == Head(folders)
           renamed == Folder(tree[i].dir, convert_tiff_to_tif(tree[i].files))
       IN  /\ tree' = [tree EXCEPT ![i] = renamed]
           /\ todo' = tif_files(renamed)
           /\ pc' = IF tif_files(renamed) = <<>> THEN "folders" ELSE "files"
    /\ folders' = Tail(folders)
    /\ UNCHANGED <<txnVars, result, runs, metaVars, sinkVars, normVars, segVars, plotVars>>

\* lines 52-71: one iteration of the loop over tif_files
ProcessFolderFile ==
    /\ pc = "files"
    /\ todo # <<>>
    /\ \E outcome \in Outcomes :
          /\ FileBody(Head(todo), BatchArg(Head(todo)), outcome, SpotsAt(tree, Head(todo)))
          /\ result' = (Head(todo) :> outcome) @@ result
          /\ pc' = AfterFile(outcome)
    /\ todo' = Tail(todo)
    /\ UNCHANGED <<txnVars, tree, folders, runs, normVars, segVars, plotVars>>

\* the loop of process_folder is exhausted: back to the loop over folders
FolderDone ==
    /\ pc = "files"
    /\ todo = <<>>
    /\ pc' = "folders"
    /\ UNCHANGED <<txnVars, metaVars, sinkVars, batchVars, normVars, segVars, plotVars>>

\* line 85: all folders processed
BatchDone ==
    /\ pc = "folders"
    /\ folders = <<>>
    /\ pc' = "done"
    /\ UNCHANGED <<txnVars, metaVars, sinkVars, batchVars, normVars, segVars, plotVars>>

-----------------------------------------------------------------------------
(* seg_process.py                                                          *)

\* lines 39-64: one iteration of the loop of process_images
ProcessImagesFile ==
    /\ pc = "files"
    /\ todo # <<>>
    /\ \E outcome \in Outcomes :
          /\ FileBody(Head(todo), SingleArg(Head(todo)), outcome, SpotsAt(tree, Head(todo)))
          /\ result' = (Head(todo) :> outcome) @@ result
          /\ pc' = "files"
    /\ todo' = Tail(todo)
    /\ UNCHANGED <<txnVars, tree, folders, runs, normVars, segVars, plotVars>>

-----------------------------------------------------------------------------
(* segmentation.py: normalize_image, load_tif                              *)

\* An array is its shape and its elements in C order.
Array(shape, data) == [shape |-> shape, data |-> data]

RECURSIVE Size(_)
Size(shape) == IF shape = <<>> THEN 1 ELSE Head(shape) * Size(Tail(shape))

Min(data) == CHOOSE x \in {data[i] : i \in DOMAIN data} :
                 \A i \in DOMAIN data : x <= data[i]
Max(data) == CHOOSE x \in {data[i] : i \in DOMAIN data} :
                 \A i \in DOMAIN data : x >= data[i]

\* astype(np.uint8) of a non-negative float x, fraction already dropped.  A
\* value that does not fit has no defined result: builds wrap it or clamp it.
CastPolicies == {"wrap", "clamp"}
CastU8(x, policy) ==
    IF x \in 0..255 THEN x
    ELSE IF policy = "wrap" THEN x % 256 ELSE 255

\* astype(np.uint8) of NaN has no defined result either
NaNCast == {0, 255}

\* the conversion with the mean rounded to the nearest integer
rgb_to_gray_Rounded(b, policy) ==
    Array(<<b.shape[1], b.shape[2]>>,
          [k \in 1..(b.shape[1] * b.shape[2]) |->
              CastU8((2 * (b.data[3 * k - 2] + b.data[3 * k - 1] + b.data[3 * k]) + 3)
                         \div 6, policy)])

\* line 72: np.mean(img, axis=2).astype(np.uint8); the cast drops the fraction
rgb_to_gray(b, policy) ==
    Array(<<b.shape[1], b.shape[2]>>,
          [k \in 1..(b.shape[1] * b.shape[2]) |->
              CastU8((b.data[3 * k - 2] + b.data[3 * k - 1] + b.data[3 * k]) \div 3,
                     policy)])

\* line 75: img[0, ...]
first_slice(b) ==
    Array(Tail(b.shape), SubSeq(b.data, 1, Size(Tail(b.shape))))

\* lines 69-75
to_single_plane(b, policy) ==
    IF Len(b.shape) = 3 /\ b.shape[3] = 3 THEN rgb_to_gray(b, policy)
    ELSE IF Len(b.shape) > 2 THEN first_slice(b)
    ELSE b

\* line 57 divides by img.max() - img.min() unconditionally
DividesByZero(im) == Max(im.data) = Min(im.data)

\* lines 56-58.  On a constant image every pixel is 0/0 = NaN, cast to uint8;
\* otherwise the quotient, scaled, lies in 0..255 and the cast drops its
\* fraction.
normalize_image(im, nan) ==
    LET lo == Min(im.data)
        hi == Max(im.data)
    IN  Array(im.shape,
              [i \in DOMAIN im.data |->
                  IF hi = lo THEN nan
                  ELSE ((im.data[i] - lo) * 255) \div (hi - lo)])

Shapes == {<<1, 2>>, <<1, 2, 3>>, <<2, 1, 2>>, <<2, 1, 1, 3>>}
PixVals == {0, 1, 255, 256}
Buffers == UNION { {Array(sh, d) : d \in [1..Size(sh) -> PixVals]} : sh \in Shapes }

\* lines 61-84.  buf = None stands for a file tifffile cannot decode: the
\* exception is caught and None returned.
LoadTif ==
    /\ pc = "load"
    /\ IF buf = None
       THEN gray' = None /\ img' = None /\ fpe' = FALSE
       ELSE \E policy \in CastPolicies, nan \in NaNCast :
               LET plane == to_single_plane(buf, policy)
               IN  /\ gray' = plane
                   /\ img' = normalize_image(plane, nan)
                   /\ fpe' = DividesByZero(plane)
    /\ pc' = "loaded"
    /\ UNCHANGED <<txnVars, buf, metaVars, sinkVars, batchVars, segVars, plotVars>>

-----------------------------------------------------------------------------
(* Direct calls of store_measurements_in_sql                               *)

MaxSpots == 3

SpotKinds == {<<5, 12>>, <<6, 21>>, <<7, 7>>}

\* the lists of at most MaxSpots measurements, labelled 1, 2, ... in order
SpotLists ==
    UNION { { [i \in 1..n |-> Measurement(i, k[i][1], k[i][2])] :
                k \in [1..n -> SpotKinds] } : n \in 0..MaxSpots }

StoreMetas == { parse_filename(<<SegCtrlMeri, FileStack>>),
                parse_filename(<<FileSlice>>) }

\* one call; pc records how it ended
StoreCall ==
    /\ pc = "call"
    /\ \E m \in StoreMetas, ms \in SpotLists, how \in StoreOutcomes :
          /\ meta_in' = m
          /\ store_measurements_in_sql(m, ms, how)
          /\ pc' = how
    /\ UNCHANGED <<txnVars, file_path, batchVars, normVars, segVars, plotVars>>

-----------------------------------------------------------------------------
(* segmentation.py: segment_and_measure_spots, lines 106-121               *)

Side == 0..3
GridN == Cardinality(Side)
MaxFg == 4
MaxMinArea == 3

\* pixels <<row, column>> of a GridN x GridN image; a mask is the set of its
\* foreground pixels
Pixels == Side \X Side

\* the 2-D neighbourhoods of scikit-image: connectivity 1 joins pixels that
\* share an edge, connectivity 2 those that share an edge or a corner
Adjacent(p, q, connectivity) ==
    LET dr == IF p[1] >= q[1] THEN p[1] - q[1] ELSE q[1] - p[1]
        dc == IF p[2] >= q[2] THEN p[2] - q[2] ELSE q[2] - p[2]
    IN  /\ p # q
        /\ dr <= 1 /\ dc <= 1
        /\ dr + dc <= connectivity

\* the connected component of m that holds the pixels of S
RECURSIVE Grow(_, _, _)
Grow(S, m, connectivity) ==
    LET next == S \cup {q \in m : \E p \in S : Adjacent(p, q, connectivity)}
    IN  IF next = S THEN S ELSE Grow(next, m, connectivity)

Components(m, connectivity) == { Grow({p}, m, connectivity) : p \in m }

OnBorder(p) == p[1] \in {0, GridN - 1} \/ p[2] \in {0, GridN - 1}

\* the step left out
remove_small_objects_Skipped(m, min_size) == m

\* line 106: morphology.remove_small_objects(mask, min_size), which labels a
\* boolean array with connectivity 1 and drops the components smaller than
\* min_size
remove_small_objects(m, min_size) ==
    UNION { c \in Components(m, 1) : Cardinality(c) >= min_size }

\* line 107: segmentation.clear_border(mask), which labels with full
\* connectivity and drops the components holding a border pixel
clear_border(m) ==
    UNION { c \in Components(m, 2) : \A p \in c : ~OnBorder(p) }

Raster(p) == p[1] * GridN + p[2]
First(c) == CHOOSE p \in c : \A q \in c : Raster(p) <= Raster(q)

\* line 109: measure.label(mask), full connectivity; the components in the
\* order of their first pixel in raster order, label i at position i
RECURSIVE InRasterOrder(_)
InRasterOrder(cs) ==
    IF cs = {} THEN <<>>
    ELSE LET c == CHOOSE x \in cs :
                      \A y \in cs : Raster(First(x)) <= Raster(First(y))
         IN  <<c>> \o InRasterOrder(cs \ {c})

label(m) == InRasterOrder(Components(m, 2))

\* the intensity of a pixel of the image being segmented
Intensity(im, p) == im.data[Raster(p) + 1]

RECURSIVE TotalIntensity(_, _)
TotalIntensity(im, c) ==
    IF c = {} THEN 0
    ELSE LET p == CHOOSE q \in c : TRUE
         IN  Intensity(im, p) + TotalIntensity(im, c \ {p})

\* lines 111-120: one measurement per labelled region
regionprops(labeled, im) ==
    [i \in 1..Len(labeled) |->
        Measurement(i, Cardinality(labeled[i]), TotalIntensity(im, labeled[i]))]

\* the images segmented: a flat one and a ramp
SegImages ==
    { Array(<<GridN, GridN>>, [i \in 1..(GridN * GridN) |-> 200]),
      Array(<<GridN, GridN>>, [i \in 1..(GridN * GridN) |-> (7 * i) % 256]) }

\* the masks lines 99-104 may leave: any set of at most MaxFg pixels
BinaryMasks == { m \in SUBSET Pixels : Cardinality(m) <= MaxFg }

\* lines 106-121
SegmentAndMeasure ==
    /\ pc = "segment"
    /\ LET cleaned == clear_border(remove_small_objects(binary, min_area))
       IN  /\ mask' = cleaned
           /\ measurements' = regionprops(label(cleaned), img)
    /\ pc' = "segmented"
    /\ UNCHANGED <<txnVars, binary, min_area, metaVars, sinkVars, batchVars, normVars, plotVars>>

-----------------------------------------------------------------------------
(* plot_nuclear_metrics_dual.py                                            *)

MaxRows == 3

\* arithmetic on fractions with non-negative numerators
FAdd(a, b) == Frac(a[1] * b[2] + b[1] * a[2], a[2] * b[2])
FDivInt(a, n) == Frac(a[1], a[2] * n)
FSqDiff(a, b) ==
    Frac((a[1] * b[2] - b[1] * a[2]) * (a[1] * b[2] - b[1] * a[2]),
         (a[2] * b[2]) * (a[2] * b[2]))

\* the sum of the fractions f[x], x in S
RECURSIVE FSum(_, _)
FSum(f, S) ==
    IF S = {} THEN Zero
    ELSE LET x == CHOOSE y \in S : TRUE IN FAdd(f[x], FSum(f, S \ {x}))

\* the mean of the fractions f[x], x in S (S not empty)
FMean(f, S) == FDivInt(FSum(f, S), Cardinality(S))

\* scipy.stats.sem, squared: the sample variance (ddof = 1) over the number
\* of values; NaN, here None, for a single value
SemSquared(f, S) ==
    LET n == Cardinality(S)
        m == FMean(f, S)
    IN  IF n < 2 THEN None
        ELSE Some(FDivInt(FSum([x \in S |-> FSqDiff(f[x], m)], S), n * (n - 1)))

\* a line of image_summary.csv as pandas reads it (the columns the script
\* uses); an empty seedling or zslice cell is NaN, here None
PlotRow(cond, seedling, zslice, val) ==
    [ region               |-> cond[1],
      genotype             |-> cond[2],
      seedling             |-> seedling,
      zslice               |-> zslice,
      integrated_intensity |-> val[1],
      total_area           |-> val[2] ]

\* the rows a frame is made of: every kind of row of one condition, and two
\* rows of a second condition
PlotRows ==
    { PlotRow(<<"meristem", "control">>, sd, z, v) :
        sd \in {None, Some(1), Some(2)},
        z  \in {None, Some(16)},
        v  \in {<<12, 5>>, <<30, 6>>} }
    \cup
    { PlotRow(<<"elongation", "mutant">>, Some(1), z, <<12, 5>>) :
        z \in {None, Some(16)} }

Frames == UNION { [1..n -> PlotRows] : n \in 0..MaxRows }

\* the grouping with every image a group of its own
per_seedling_PerImage(s) ==
    { [ region    |-> s[i].region,
        genotype  |-> s[i].genotype,
        seedling  |-> s[i].seedling,
        intensity |-> Frac(s[i].integrated_intensity, 1),
        area      |-> Frac(s[i].total_area, 1),
        members   |-> {i} ] : i \in {j \in DOMAIN s : s[j].seedling # None} }

\* lines 10-13: groupby(["region", "genotype", "seedling"]) and the mean of
\* each group.  groupby leaves out the rows with a NaN key.  `members` are
\* the rows of the group.
per_seedling(s) ==
    LET keyed == {i \in DOMAIN s : s[i].seedling # None}
        group(i) == {j \in keyed : /\ s[j].region = s[i].region
                                   /\ s[j].genotype = s[i].genotype
                                   /\ s[j].seedling = s[i].seedling}
    IN  { [ region    |-> s[i].region,
            genotype  |-> s[i].genotype,
            seedling  |-> s[i].seedling,
            intensity |-> Frac(SetSum([j \in group(i) |-> s[j].integrated_intensity],
                                      group(i)), Cardinality(group(i))),
            area      |-> Frac(SetSum([j \in group(i) |-> s[j].total_area],
                                      group(i)), Cardinality(group(i))),
            members   |-> group(i) ] : i \in keyed }

\* lines 14-19: groupby(["region", "genotype"]) over the per-seedling rows,
\* mean and sem of each group
per_condition(agg) ==
    LET group(g) == {h \in agg : h.region = g.region /\ h.genotype = g.genotype}
    IN  { [ region         |-> g.region,
            genotype       |-> g.genotype,
            intensity_mean |-> FMean([h \in group(g) |-> h.intensity], group(g)),
            intensity_sem  |-> SemSquared([h \in group(g) |-> h.intensity], group(g)),
            area_mean      |-> FMean([h \in group(g) |-> h.area], group(g)),
            area_sem       |-> SemSquared([h \in group(g) |-> h.area], group(g)) ] :
          g \in agg }

\* lines 8-19 of agg_and_plot, on the subset s
agg_and_plot(s) ==
    /\ sub' = s
    /\ sub_agg' = per_seedling(s)
    /\ bar' = per_condition(per_seedling(s))

\* lines 74-76: the rows with a z-slice
PlotZSlices ==
    /\ pc = "zslices"
    /\ agg_and_plot(SelectSeq(df, LAMBDA r : r.zslice # None))
    /\ pc' = "stacks"
    /\ UNCHANGED <<txnVars, df, metaVars, sinkVars, batchVars, normVars, segVars>>

\* lines 79-81: the rows without one
PlotStacks ==
    /\ pc = "stacks"
    /\ agg_and_plot(SelectSeq(df, LAMBDA r : r.zslice = None))
    /\ pc' = "plotted"
    /\ UNCHANGED <<txnVars, df, metaVars, sinkVars, batchVars, normVars, segVars>>

-----------------------------------------------------------------------------
(* store_measurements_in_sql statement by statement                        *)
(*   segmentation.py lines 125-234, called from the loop body of           *)
(*   seg_process_batch.py process_folder, lines 52-71                      *)
(* sqlite3 opens a transaction implicitly before the first INSERT of a     *)
(* connection; the rows a connection has inserted stay its own until       *)
(* conn.commit(), and are dropped when the connection goes away without.   *)

MaxCalls == 2

TwoSpots == <<Measurement(1, 5, 12), Measurement(2, 6, 21)>>
TxnSpotLists == {NoSpots, OneSpot, TwoSpots}

\* nobody has written anything
NoOwner == [csv |-> <<>>, spots |-> <<>>, images |-> <<>>]

\* the rows added to a file or table are marked with the call k that added them
Tag(marks, old_rows, new_rows, k) ==
    marks \o [i \in 1..(Len(new_rows) - Len(old_rows)) |-> k]

\* line 162: a fresh connection has no transaction open
Connection(spots, images) == [spots |-> spots, images |-> images]

\* the statement commits the open transaction before it runs
create_table_ImplicitCommit(committed, pending) ==
    [committed |-> committed \o pending, pending |-> <<>>]

\* lines 166-178 and 199-210: CREATE TABLE IF NOT EXISTS.  sqlite3 (Python
\* 3.6 and later; the annotations of line 87 need 3.9) neither opens nor
\* commits a transaction for a DDL statement.
create_table(committed, pending) ==
    [committed |-> committed, pending |-> pending]

\* lines 125-152: the call is entered, totals computed, the dict enriched
StoreEnter ==
    /\ pc = "ready"
    /\ Len(calls) < MaxCalls
    /\ \E m \in StoreMetas, ms \in TxnSpotLists :
          /\ meta_in' = m
          /\ meta' = Enrich(m)
          /\ last_spots' = ms
          /\ calls' = Append(calls, [meta |-> Enrich(m), ms |-> ms])
    /\ pc' = "csv"
    /\ UNCHANGED <<file_path, csv_exists, csv_lines, db_spots, db_images,
                   conn, owner, batchVars, normVars, segVars, plotVars>>

\* lines 154-160: the flat row is appended and the file closed
StoreCsv ==
    /\ pc = "csv"
    /\ csv_exists' = TRUE
    /\ csv_lines' = CsvAppend(csv_exists, csv_lines, CsvRow(meta, CsvSummary(last_spots)))
    /\ owner' = [owner EXCEPT !.csv = Tag(@, csv_lines, csv_lines', Len(calls))]
    /\ pc' = "connect"
    /\ UNCHANGED <<conn, calls, db_spots, db_images, last_spots,
                   metaVars, batchVars, normVars, segVars, plotVars>>

\* lines 162-178: connect, create table spots
StoreConnect ==
    /\ pc = "connect"
    /\ LET r == create_table(db_spots, <<>>)
       IN  /\ db_spots' = r.committed
           /\ conn' = Connection(r.pending, <<>>)
           /\ owner' = [owner EXCEPT !.spots = Tag(@, db_spots, r.committed, Len(calls))]
    /\ pc' = "spots"
    /\ UNCHANGED <<calls, csv_exists, csv_lines, db_images, last_spots,
                   metaVars, batchVars, normVars, segVars, plotVars>>

\* lines 181-196: one iteration of the loop over measurements
StoreInsertSpot ==
    /\ pc = "spots"
    /\ Len(conn.spots) < Len(last_spots)
    /\ conn' = [conn EXCEPT !.spots =
                   Append(@, SpotRow(meta, last_spots[Len(conn.spots) + 1]))]
    /\ UNCHANGED <<pc, calls, owner, sinkVars,
                   metaVars, batchVars, normVars, segVars, plotVars>>

\* lines 199-210: the loop is exhausted, create table images
StoreCreateImages ==
    /\ pc = "spots"
    /\ Len(conn.spots) = Len(last_spots)
    /\ LET r == create_table(db_spots, conn.spots)
       IN  /\ db_spots' = r.committed
           /\ conn' = [conn EXCEPT !.spots = r.pending]
           /\ owner' = [owner EXCEPT !.spots = Tag(@, db_spots, r.committed, Len(calls))]
    /\ pc' = "image"
    /\ UNCHANGED <<calls, csv_exists, csv_lines, db_images, last_spots,
                   metaVars, batchVars, normVars, segVars, plotVars>>

\* lines 213-231: the aggregated row
StoreInsertImage ==
    /\ pc = "image"
    /\ conn' = [conn EXCEPT !.images = Append(@, ImageRow(meta, DbSummary(last_spots)))]
    /\ pc' = "commit"
    /\ UNCHANGED <<calls, owner, sinkVars,
                   metaVars, batchVars, normVars, segVars, plotVars>>

\* lines 233-234: commit and close
StoreCommit ==
    /\ pc = "commit"
    /\ db_spots' = db_spots \o conn.spots
    /\ db_images' = db_images \o conn.images
    /\ owner' = [owner EXCEPT
                   !.spots  = Tag(@, db_spots, db_spots', Len(calls)),
                   !.images = Tag(@, db_images, db_images', Len(calls))]
    /\ conn' = None
    /\ pc' = "ready"
    /\ UNCHANGED <<calls, csv_exists, csv_lines, last_spots,
                   metaVars, batchVars, normVars, segVars, plotVars>>

\* A statement of lines 156-233 raises (the file cannot be opened, the
\* database is locked or the disk full): the call is left at once, the
\* connection neither committed nor closed.
StoreRaise ==
    /\ pc \in {"csv", "connect", "spots", "image", "commit"}
    /\ pc' = "raised"
    /\ UNCHANGED <<txnVars, metaVars, sinkVars, batchVars, normVars, segVars, plotVars>>

\* seg_process_batch.py lines 70-71: the exception is caught and printed.
\* With it the frame of the call goes away, and with the frame its
\* connection: what it had not committed is rolled back.
StoreExcept ==
    /\ pc = "raised"
    /\ conn' = None
    /\ pc' = "ready"
    /\ UNCHANGED <<calls, owner, metaVars, sinkVars, batchVars, normVars, segVars, plotVars>>

\* seg_process_batch.py lines 75-76: a new run removes the database file;
\* the summary file stays
RemoveDb ==
    /\ pc = "ready"
    /\ db_spots # <<>> \/ db_images # <<>>
    /\ db_spots' = <<>>
    /\ db_images' = <<>>
    /\ owner' = [owner EXCEPT !.spots = <<>>, !.images = <<>>]
    /\ UNCHANGED <<pc, conn, calls, csv_exists, csv_lines, last_spots,
                   metaVars, batchVars, normVars, segVars, plotVars>>

-----------------------------------------------------------------------------
(* Initial states                                                          *)

MetaIdle  == file_path = <<>> /\ meta_in = None /\ meta = None
SinkEmpty == /\ csv_exists = FALSE /\ csv_lines = <<>>
             /\ db_spots = <<>> /\ db_images = <<>> /\ last_spots = <<>>
BatchIdle == /\ tree = <<>> /\ folders = <<>> /\ todo = <<>>
             /\ result = <<>> /\ runs = 0
NormIdle  == buf = None /\ gray = None /\ img = None /\ fpe = FALSE
SegIdle   == binary = {} /\ mask = {} /\ min_area = 0 /\ measurements = <<>>
PlotIdle  == df = <<>> /\ sub = <<>> /\ sub_agg = {} /\ bar = {}
TxnIdle   == conn = None /\ calls = <<>> /\ owner = NoOwner

\* One file of any path, about to be processed by either driver.
InitMeta ==
    /\ pc = "files"
    /\ \E p \in Paths, ms \in DriverSpotLists :
          /\ tree = <<Folder(SubSeq(p, 1, Len(p) - 1), {File(p[Len(p)], ms)})>>
          /\ todo = <<p>>
    /\ folders = <<>> /\ result = <<>> /\ runs = 1
    /\ TxnIdle /\ MetaIdle /\ SinkEmpty /\ NormIdle /\ SegIdle /\ PlotIdle

NextMeta == ProcessFolderFile \/ ProcessImagesFile

SpecMeta == InitMeta /\ [][NextMeta]_vars

\* A tree on disk, the summary file missing or left by an earlier run.
Init ==
    /\ pc = "idle"
    /\ tree \in Trees
    /\ folders = <<>> /\ todo = <<>> /\ result = <<>> /\ runs = 0
    /\ csv_exists \in BOOLEAN
    /\ csv_lines = IF csv_exists THEN OldCsv ELSE <<>>
    /\ db_spots = <<>> /\ db_images = <<>> /\ last_spots = <<>>
    /\ TxnIdle /\ MetaIdle /\ NormIdle /\ SegIdle /\ PlotIdle

\* A buffer read from a file, or a file that cannot be decoded.
InitNorm ==
    /\ pc = "load"
    /\ buf \in Buffers \cup {None}
    /\ gray = None /\ img = None /\ fpe = FALSE
    /\ TxnIdle /\ MetaIdle /\ SinkEmpty /\ BatchIdle /\ SegIdle /\ PlotIdle

NextNorm == LoadTif

SpecNorm == InitNorm /\ [][NextNorm]_vars

\* A store call about to be made, the summary file missing or present.
InitStore ==
    /\ pc = "call"
    /\ csv_exists \in BOOLEAN
    /\ csv_lines = IF csv_exists THEN OldCsv ELSE <<>>
    /\ db_spots = <<>> /\ db_images = <<>> /\ last_spots = <<>>
    /\ TxnIdle /\ MetaIdle /\ BatchIdle /\ NormIdle /\ SegIdle /\ PlotIdle

NextStore == StoreCall

SpecStore == InitStore /\ [][NextStore]_vars

\* An image thresholded and cleaned up to line 104, and a minimum area.
InitSeg ==
    /\ pc = "segment"
    /\ img \in SegImages
    /\ binary \in BinaryMasks
    /\ min_area \in 0..MaxMinArea
    /\ mask = {} /\ measurements = <<>>
    /\ buf = None /\ gray = None /\ fpe = FALSE
    /\ TxnIdle /\ MetaIdle /\ SinkEmpty /\ BatchIdle /\ PlotIdle

NextSeg == SegmentAndMeasure

SpecSeg == InitSeg /\ [][NextSeg]_vars

\* The summary file as read at line 6.
InitPlot ==
    /\ pc = "zslices"
    /\ df \in Frames
    /\ sub = <<>> /\ sub_agg = {} /\ bar = {}
    /\ TxnIdle /\ MetaIdle /\ SinkEmpty /\ BatchIdle /\ NormIdle /\ SegIdle

NextPlot == PlotZSlices \/ PlotStacks

SpecPlot == InitPlot /\ [][NextPlot]_vars

\* A series of store calls, the summary file missing or left by an earlier run.
InitTxn ==
    /\ pc = "ready"
    /\ csv_exists \in BOOLEAN
    /\ csv_lines = IF csv_exists THEN OldCsv ELSE <<>>
    /\ db_spots = <<>> /\ db_images = <<>> /\ last_spots = <<>>
    /\ conn = None /\ calls = <<>>
    /\ owner = [NoOwner EXCEPT !.csv = [i \in 1..Len(csv_lines) |-> 0]]
    /\ MetaIdle /\ BatchIdle /\ NormIdle /\ SegIdle /\ PlotIdle

NextTxn ==
    \/ StoreEnter \/ StoreCsv \/ StoreConnect \/ StoreInsertSpot
    \/ StoreCreateImages \/ StoreInsertImage \/ StoreCommit
    \/ StoreRaise \/ StoreExcept \/ RemoveDb

SpecTxn == InitTxn /\ [][NextTxn]_vars

Next == Main \/ ProcessFolder \/ ProcessFolderFile \/ FolderDone \/ BatchDone

Spec == Init /\ [][Next]_vars

-----------------------------------------------------------------------------
(* Claims on the batch driver (Spec)                                  *)

\* the run in progress has ended, normally or not
RunOver == runs >= 1 /\ pc \notin {"folders", "files"}

WroteRow(outcome) == outcome \in {"db_raise", "viz_raise", "ok"}

\* C1: a failing file never aborts the batch.  Whenever a run is over, every
\* .tif file under the tree has been taken through the per-file body,
\* whatever happened to the others; and the step that visits a file whose
\* load fails leaves the summary file and both tables as they were.
C1_FailureIsolated ==
    /\ [](RunOver => DOMAIN result = AllTifFiles(tree))
    /\ [][\A f \in DOMAIN result' \ DOMAIN result :
             result'[f] = "load_none" =>
                 UNCHANGED <<csv_exists, csv_lines, db_spots, db_images>>]_vars

\* C1 witness: a finished run in which one file failed to load, another
\* raised, and both were visited.
C1_Witness ==
    /\ pc = "done"
    /\ \E f, g \in DOMAIN result :
          /\ f # g
          /\ result[f] = "load_none"
          /\ result[g] \in Raises

\* C6: the summary file, when it exists, starts with the header and holds no
\* other header; every step leaves the lines already there untouched, and a
\* step that changes the file appends exactly the row of the call it makes.
C6_HeaderOnceAppendOnly ==
    /\ [](IF csv_exists
          THEN /\ Len(csv_lines) >= 1
               /\ csv_lines[1].kind = "header"
               /\ \A i \in 2..Len(csv_lines) : csv_lines[i].kind = "row"
          ELSE csv_lines = <<>>)
    /\ [][/\ csv_exists => csv_exists'
          /\ Len(csv_lines') >= Len(csv_lines)
          /\ \A i \in 1..Len(csv_lines) : csv_lines'[i].kind = csv_lines[i].kind
          /\ \A i \in 2..Len(csv_lines) : csv_lines'[i] = csv_lines[i]
          /\ csv_lines' # csv_lines =>
                /\ Len(csv_lines') = (IF csv_exists THEN Len(csv_lines) + 1 ELSE 2)
                /\ csv_lines'[Len(csv_lines')] = CsvRow(meta', CsvSummary(last_spots'))]_vars

\* C6 witness: a second run has appended to the file the first run made.
C6_Witness ==
    /\ runs = 2
    /\ csv_exists
    /\ Len(csv_lines) >= 4

\* C7: the flat summary and table images hold at most one record per image
\* file name.
C7_OneRecordPerImage ==
    /\ \A i, j \in 2..Len(csv_lines) :
          i # j => csv_lines[i].filename # csv_lines[j].filename
    /\ \A i, j \in 1..Len(db_images) :
          i # j => db_images[i].filename # db_images[j].filename

-----------------------------------------------------------------------------
(* Claims on the metadata (SpecMeta)                                       *)

\* the first name of kws whose keyword occurs, in any case, in a segment of p
FirstKeyword(kws, p) ==
    LET hits == { k \in 1..Len(kws) :
                    \E i \in 1..Len(p) : Contains(kws[k][1], Lower(p[i])) }
    IN  IF hits = {} THEN "unknown"
        ELSE kws[CHOOSE k \in hits : \A h \in hits : k <= h][2]

RegionKeywords == << <<KW_meristem, "meristem">>, <<KW_elongation, "elongation">> >>
GenotypeKeywords == << <<KW_control, "control">>, <<KW_mutant, "mutant">> >>

\* C4: the metadata is not changed after parse_filename made it, and the
\* flat row of the image carries the region and genotype parse_filename
\* produced.
C4_MetadataImmutable ==
    \A f \in DOMAIN result :
        f = file_path =>
            /\ meta.region = meta_in.region
            /\ meta.genotype = meta_in.genotype
            /\ WroteRow(result[f]) =>
                  /\ csv_lines[Len(csv_lines)].region = meta_in.region
                  /\ csv_lines[Len(csv_lines)].genotype = meta_in.genotype

\* C5: under either driver the region and genotype of an image are the first
\* keyword found in any segment of the image's path.
C5_FromAllSegments ==
    \A f \in DOMAIN result :
        f = file_path =>
            /\ meta_in.region = FirstKeyword(RegionKeywords, f)
            /\ meta_in.genotype = FirstKeyword(GenotypeKeywords, f)

-----------------------------------------------------------------------------
(* Claims on the image normalizer (SpecNorm)                               *)

\* C2: a constant image normalizes to all zeros without a division by zero;
\* any other image has its minimum mapped to 0 and its maximum to 255.
C2_ConstantImageAllZero ==
    (pc = "loaded" /\ img # None) =>
        IF Min(gray.data) = Max(gray.data)
        THEN /\ \A i \in DOMAIN img.data : img.data[i] = 0
             /\ ~fpe
        ELSE \A i \in DOMAIN img.data :
                /\ gray.data[i] = Min(gray.data) => img.data[i] = 0
                /\ gray.data[i] = Max(gray.data) => img.data[i] = 255

\* the three channel values of pixel k of a buffer whose last axis is 3 long
ChannelSum(b, k) == b.data[3 * k - 2] + b.data[3 * k - 1] + b.data[3 * k]

\* C9 as stated: every buffer whose last dimension is 3 is reduced to a 2-D
\* image of its first two dimensions, each pixel the channel mean rounded to
\* the nearest integer.
C9_RgbMeanRounded ==
    (pc = "loaded" /\ buf # None /\ buf.shape[Len(buf.shape)] = 3) =>
        /\ gray.shape = <<buf.shape[1], buf.shape[2]>>
        /\ Len(gray.data) * 3 = Size(buf.shape)
        /\ \A k \in DOMAIN gray.data :
              \/ 2 * ChannelSum(buf, k) + 3 >= 6 * 256
              \/ /\ 6 * gray.data[k] <= 2 * ChannelSum(buf, k) + 3
                 /\ 2 * ChannelSum(buf, k) + 3 < 6 * gray.data[k] + 6

\* C9 amended: a buffer of exactly three dimensions whose third is 3 is
\* reduced to a 2-D image of its first two dimensions, each pixel the channel
\* mean with its fraction dropped (for a mean below 256).
C9_RgbMeanTruncated ==
    (pc = "loaded" /\ buf # None /\ Len(buf.shape) = 3 /\ buf.shape[3] = 3) =>
        /\ gray.shape = <<buf.shape[1], buf.shape[2]>>
        /\ Len(gray.data) = buf.shape[1] * buf.shape[2]
        /\ \A k \in DOMAIN gray.data :
              \/ ChannelSum(buf, k) >= 3 * 256
              \/ /\ 3 * gray.data[k] <= ChannelSum(buf, k)
                 /\ ChannelSum(buf, k) < 3 * gray.data[k] + 3

\* C9 witness: an RGB buffer was reduced, and one of its pixels has a mean
\* whose fraction is 2/3, where dropping and rounding differ.
C9_Witness ==
    /\ pc = "loaded" /\ buf # None
    /\ Len(buf.shape) = 3 /\ buf.shape[3] = 3
    /\ \E k \in DOMAIN gray.data :
          /\ ChannelSum(buf, k) % 3 = 2
          /\ ChannelSum(buf, k) < 3 * 256
          /\ 3 * gray.data[k] + 2 = ChannelSum(buf, k)

-----------------------------------------------------------------------------
(* Claims on the aggregation of one image (SpecStore)                      *)

Reorderings(n) == { q \in [1..n -> 1..n] : \A i, j \in 1..n : q[i] = q[j] => i = j }

LastRow == csv_lines[Len(csv_lines)]
LastImage == db_images[Len(db_images)]

\* C3: the row a call writes has total_area and integrated_intensity equal to
\* the sums over the spots, mean_intensity their quotient, and 0 and 0 for an
\* empty list; any reordering of the list gives the same three values; and
\* the row of table images carries the same three values.
C3_SummaryIsSumAndQuotient ==
    pc \in {"db_raise", "stored"} =>
        LET ms   == last_spots
            area == SetSum([i \in DOMAIN ms |-> ms[i].area_pixels], DOMAIN ms)
            int  == SetSum([i \in DOMAIN ms |-> ms[i].integrated_intensity], DOMAIN ms)
        IN  /\ LastRow.total_area = area
            /\ LastRow.integrated_intensity = int
            /\ LastRow.mean_intensity[1] * area = int * LastRow.mean_intensity[2]
            /\ LastRow.mean_intensity[2] >= 1
            /\ ms = <<>> => LastRow.total_area = 0 /\ LastRow.mean_intensity = Zero
            /\ \A q \in Reorderings(Len(ms)) :
                  CsvSummary([i \in DOMAIN ms |-> ms[q[i]]]) =
                      [ total_area           |-> LastRow.total_area,
                        integrated_intensity |-> LastRow.integrated_intensity,
                        mean_intensity       |-> LastRow.mean_intensity ]
            /\ pc = "stored" =>
                  /\ LastImage.total_area = LastRow.total_area
                  /\ LastImage.integrated_intensity = LastRow.integrated_intensity
                  /\ LastImage.mean_intensity = LastRow.mean_intensity

\* C3 witness: a call stored a list of two different spots, and another way
\* round would have been a different list.
C3_Witness ==
    /\ pc = "stored"
    /\ Len(last_spots) >= 2
    /\ last_spots[1].area_pixels # last_spots[2].area_pixels
    /\ LastImage.total_area = last_spots[1].area_pixels + last_spots[2].area_pixels

-----------------------------------------------------------------------------
(* Claims on the segmentation (SpecSeg)                                    *)

\* C8: the list holds one measurement per connected region of the returned
\* mask, with that region's area; no pixel of the returned mask lies on the
\* image border; no measurement has an area below min_area; and a mask with
\* no surviving region gives the empty list.
C8_NoBorderNoSmall ==
    pc = "segmented" =>
        /\ Len(measurements) = Cardinality(Components(mask, 2))
        /\ \A c \in Components(mask, 2) :
              \E i \in DOMAIN measurements :
                  /\ measurements[i].label = i
                  /\ measurements[i].area_pixels = Cardinality(c)
                  /\ \A j \in DOMAIN measurements :
                        j < i <=> \E d \in Components(mask, 2) :
                                     /\ Raster(First(d)) < Raster(First(c))
                                     /\ measurements[j].area_pixels = Cardinality(d)
                                     /\ Cardinality({e \in Components(mask, 2) :
                                            Raster(First(e)) < Raster(First(d))}) = j - 1
        /\ \A p \in mask : ~OnBorder(p)
        /\ \A i \in DOMAIN measurements : measurements[i].area_pixels >= min_area
        /\ mask = {} => measurements = <<>>
        /\ mask \subseteq binary

\* C8 witness: a region survived while a region on the border that was
\* large enough, and an interior or border region that was too small, were
\* dropped.
C8_Witness ==
    /\ pc = "segmented"
    /\ Len(measurements) >= 1
    /\ \E c \in Components(binary, 2) :
          /\ Cardinality(c) >= min_area
          /\ \E p \in c : OnBorder(p)
    /\ \E c \in Components(binary, 1) : Cardinality(c) < min_area

-----------------------------------------------------------------------------
(* Claims on the two-stage aggregation (SpecPlot)                          *)

Plotted == pc \in {"stacks", "plotted"}

GroupsOf(i) == {g \in sub_agg : i \in g.members}

\* the seedlings of condition <<r, g>> in the subset, and their images
SeedlingsOf(r, g) ==
    { sub[i].seedling : i \in {j \in DOMAIN sub : /\ sub[j].region = r
                                                  /\ sub[j].genotype = g
                                                  /\ sub[j].seedling # None} }
ImagesOf(r, g, sd) ==
    {i \in DOMAIN sub : sub[i].region = r /\ sub[i].genotype = g /\ sub[i].seedling = sd}

\* the mean over its images of each seedling of condition <<r, g>>
SeedlingMeans(r, g) ==
    [sd \in SeedlingsOf(r, g) |->
        Frac(SetSum([i \in ImagesOf(r, g, sd) |-> sub[i].integrated_intensity],
                    ImagesOf(r, g, sd)),
             Cardinality(ImagesOf(r, g, sd)))]

\* the rest of C10, which holds as stated: one per-seedling row per seedling
\* of a condition, the condition mean the plain mean of the seedling means,
\* the error computed from the seedling means
TwoStage ==
    /\ \A b \in bar :
          /\ Cardinality({g \in sub_agg : g.region = b.region /\ g.genotype = b.genotype})
                = Cardinality(SeedlingsOf(b.region, b.genotype))
          /\ b.intensity_mean =
                FMean(SeedlingMeans(b.region, b.genotype),
                      SeedlingsOf(b.region, b.genotype))
          /\ b.intensity_sem =
                SemSquared(SeedlingMeans(b.region, b.genotype),
                           SeedlingsOf(b.region, b.genotype))
    /\ \A i \in DOMAIN sub :
          sub[i].seedling # None =>
              \E b \in bar : b.region = sub[i].region /\ b.genotype = sub[i].genotype
    /\ \A b, c \in bar : (b.region = c.region /\ b.genotype = c.genotype) => b = c

\* C10 as stated: every record of the subset is counted in exactly one
\* per-seedling group, and the two-stage reduction is as described.
C10_EveryRecordInOneGroup ==
    Plotted =>
        /\ \A i \in DOMAIN sub : Cardinality(GroupsOf(i)) = 1
        /\ TwoStage

\* C10 amended: every record of the subset that has a seedling number is
\* counted in exactly one per-seedling group, the group of its region,
\* genotype and seedling; a record without one is counted in none; and the
\* two-stage reduction is as described.
C10_RecordsWithSeedlingInOneGroup ==
    Plotted =>
        /\ \A i \in DOMAIN sub :
              IF sub[i].seedling # None
              THEN /\ Cardinality(GroupsOf(i)) = 1
                   /\ \A g \in GroupsOf(i) :
                         /\ g.region = sub[i].region
                         /\ g.genotype = sub[i].genotype
                         /\ g.seedling = sub[i].seedling
              ELSE GroupsOf(i) = {}
        /\ TwoStage

\* C10 witness: a condition with two seedlings, one of them with two images
\* of different intensity, so that the mean over images and the mean over
\* seedlings differ.
C10_Witness ==
    /\ Plotted
    /\ \E b \in bar :
          /\ b.intensity_sem # None
          /\ \E g \in sub_agg :
                /\ g.region = b.region /\ g.genotype = b.genotype
                /\ Cardinality(g.members) = 2
                /\ \E i, j \in g.members :
                      sub[i].integrated_intensity # sub[j].integrated_intensity
          /\ b.intensity_mean #
                Frac(SetSum([i \in {j \in DOMAIN sub : /\ sub[j].region = b.region
                                                      /\ sub[j].genotype = b.genotype}
                               |-> sub[i].integrated_intensity],
                            {j \in DOMAIN sub : /\ sub[j].region = b.region
                                                /\ sub[j].genotype = b.genotype}),
                     Cardinality({j \in DOMAIN sub : /\ sub[j].region = b.region
                                                     /\ sub[j].genotype = b.genotype}))

-----------------------------------------------------------------------------
(* The database and the summary file, call by call                         *)

\* the rows of a table that call k wrote, in table order
RowsOf(rows, marks, k) ==
    LET idx == {i \in DOMAIN rows : marks[i] = k}
        RECURSIVE Pick(_)
        Pick(i) == IF i > Len(rows) THEN <<>>
                   ELSE IF i \in idx THEN <<rows[i]>> \o Pick(i + 1)
                   ELSE Pick(i + 1)
    IN  Pick(1)

\* call k has a data line in the summary file, for the file it was given
HasFlatRow(k) ==
    \E i \in DOMAIN csv_lines :
       /\ owner.csv[i] = k
       /\ csv_lines[i] = CsvRow(calls[k].meta, CsvSummary(calls[k].ms))

\* the database holds nothing of call k
NothingOf(k) ==
    /\ RowsOf(db_spots, owner.spots, k) = <<>>
    /\ RowsOf(db_images, owner.images, k) = <<>>

\* the database holds every spot row of call k and its image row
AllOf(k) ==
    /\ RowsOf(db_spots, owner.spots, k) =
          [i \in 1..Len(calls[k].ms) |-> SpotRow(calls[k].meta, calls[k].ms[i])]
    /\ RowsOf(db_images, owner.images, k) =
          <<ImageRow(calls[k].meta, DbSummary(calls[k].ms))>>

\* what holds of the sinks in every state
SinkConsistent ==
    /\ \A k \in 1..Len(calls) :
          /\ NothingOf(k) \/ AllOf(k)
          /\ ~NothingOf(k) => HasFlatRow(k)
    /\ conn # None => HasFlatRow(Len(calls))

\* the only steps that change the tables: the commit that ends a call, adding
\* all that the call inserted, and the removal of the database file
OneCommit ==
    (db_spots' # db_spots \/ db_images' # db_images) =>
       \/ /\ pc = "commit" /\ pc' = "ready"
          /\ db_spots' = db_spots \o [i \in 1..Len(last_spots) |-> SpotRow(meta, last_spots[i])]
          /\ db_images' = Append(db_images, ImageRow(meta, DbSummary(last_spots)))
       \/ db_spots' = <<>> /\ db_images' = <<>>

\* C11: within one store call the flat summary row is appended before any
\* database write and the spot rows and the image row are committed by a
\* single commit at the end; so in every reachable state, a database failure
\* part-way through a call included, the database holds for each call either
\* all of its spot rows with its image row or none of them, and every call
\* with a committed image row has written its flat summary row.
C11_AllOrNothing == [](SinkConsistent) /\ [][OneCommit]_vars

\* A second call has failed after inserting its spots and its image row,
\* the exception not yet handled; the first call is committed in full.
C11_Witness ==
    /\ pc = "raised"
    /\ Len(calls) = 2
    /\ conn # None
    /\ Len(conn.spots) = 2 /\ Len(conn.images) = 1
    /\ calls[1].ms # <<>> /\ AllOf(1)
    /\ NothingOf(2) /\ HasFlatRow(2)

====
